---------------------------- MODULE Spec2Model ----------------------------
(***************************************************************************)
(* A model of src/main.rs: a minimal HTTP/1.1 server.  main accepts        *)
(* connections and spawns one task per connection; handle_socket reads the *)
(* request line and the header block line by line, parses the request      *)
(* line, routes on the path, serialises the Response and writes it.        *)
(*                                                                         *)
(* Text is modelled by TLA+ strings, one character per byte (the inputs    *)
(* are ASCII), so Len is Rust's str::len.                                  *)
(***************************************************************************)
EXTENDS Integers, Sequences, FiniteSets, TLC

(***************************************************************************)
(* Bounds of the model.                                                    *)
(***************************************************************************)
\* Connections the listener hands out in one behaviour.
MaxConns == 2
\* Header lines in a generated request.
MaxHeaders == 2

CRLF == "\r\n"

Min(a, b) == IF a <= b THEN a ELSE b

\* The character of s at position k (1-based), as a one-character string.
CharAt(s, k) == SubSeq(s, k, k)

\* s from position k (1-based) to its end.
From(s, k) == SubSeq(s, k, Len(s))

StartsWith(s, p) == Len(s) >= Len(p) /\ SubSeq(s, 1, Len(p)) = p

(***************************************************************************)
(* nom's results.  IResult is Ok((rest, val)) or Err; the streaming        *)
(* parsers distinguish Err::Error from Err::Incomplete.                    *)
(***************************************************************************)
NomOk(rest, val) == [ok |-> TRUE, err |-> "", rest |-> rest, val |-> val]
NomErr(kind) == [ok |-> FALSE, err |-> kind, rest |-> "", val |-> ""]

\* tag without the check of the input's length: an input that is a proper
\* prefix of the tag matches.
tag_lenient(t, input) ==
    LET n == Min(Len(input), Len(t))
    IN  IF SubSeq(input, 1, n) # SubSeq(t, 1, n) THEN NomErr("Error")
        ELSE NomOk(From(input, Len(t) + 1), t)

\* nom::bytes::streaming::tag: compare the input with the tag over their
\* common length; a mismatch is an Error, an input that is a proper prefix
\* of the tag is Incomplete.
tag(t, input) ==
    LET n == Min(Len(input), Len(t))
    IN  IF SubSeq(input, 1, n) # SubSeq(t, 1, n) THEN NomErr("Error")
        ELSE IF Len(input) >= Len(t) THEN NomOk(From(input, Len(t) + 1), t)
        ELSE NomErr("Incomplete")

\* nom::branch::alt over tag(..).map(|_| variant): the alternatives are tried
\* in order; only Err::Error moves on to the next one.
RECURSIVE alt(_, _, _)
alt(tags, k, input) ==
    IF k > Len(tags) THEN NomErr("Error")
    ELSE LET r == tag(tags[k][1], input)
         IN  IF r.ok THEN NomOk(r.rest, tags[k][2])
             ELSE IF r.err = "Incomplete" THEN r
             ELSE alt(tags, k + 1, input)

\* The positions (0-based) at which sub occurs in s.
Occurrences(s, sub) ==
    {i \in 0..(Len(s) - Len(sub)) : SubSeq(s, i + 1, i + Len(sub)) = sub}

\* take_until1 without its check of an empty match (nom's take_until).
take_until(pat, input) ==
    LET occ == Occurrences(input, pat)
    IN  IF occ = {} THEN NomErr("Incomplete")
        ELSE LET i == CHOOSE x \in occ : \A y \in occ : x <= y
             IN  NomOk(From(input, i + 1), SubSeq(input, 1, i))

\* nom::bytes::streaming::take_until1: the input up to the first occurrence
\* of the pattern; Incomplete without one, an Error when it is at position 0.
take_until1(pat, input) ==
    LET occ == Occurrences(input, pat)
    IN  IF occ = {} THEN NomErr("Incomplete")
        ELSE LET i == CHOOSE x \in occ : \A y \in occ : x <= y
             IN  IF i = 0 THEN NomErr("Error")
                 ELSE NomOk(From(input, i + 1), SubSeq(input, 1, i))

\* rest that takes the protocol version of HTTP/1.1 alone.
rest_http11(input) ==
    IF input = "HTTP/1.1" THEN NomOk("", input) ELSE NomErr("Error")

\* nom::combinator::rest: all the remaining input; never fails.
rest(input) == NomOk("", input)

(***************************************************************************)
(* Method                                                                  *)
(***************************************************************************)
Method == {"GET", "POST", "PUT", "DELETE"}

\* MethodTags with the PUT literal mapped to the POST variant.
MethodTags_put_as_post ==
    << <<"GET", "GET">>, <<"POST", "POST">>, <<"PUT", "POST">>,
       <<"DELETE", "DELETE">> >>

MethodTags ==
    << <<"GET", "GET">>, <<"POST", "POST">>, <<"PUT", "PUT">>,
       <<"DELETE", "DELETE">> >>

\* Method_parse that takes an unknown first token for GET.
Method_parse_default(data) ==
    LET r == alt(MethodTags, 1, data)
        occ == Occurrences(data, " ")
    IN  IF r.ok \/ occ = {} THEN r
        ELSE NomOk(From(data, (CHOOSE x \in occ : \A y \in occ : x <= y) + 1),
                   "GET")

Method_parse(data) == alt(MethodTags, 1, data)

(***************************************************************************)
(* RequestLine                                                             *)
(***************************************************************************)
\* tuple((Method::parse, space, until_space, space, rest)) mapped to
\* RequestLine {method, path}: the first failing parser's error is the
\* tuple's.
RequestLine_parse(input) ==
    LET m == Method_parse(input)
    IN  IF ~m.ok THEN m
        ELSE LET s1 == tag(" ", m.rest)
        IN  IF ~s1.ok THEN s1
        ELSE LET p == take_until1(" ", s1.rest)
        IN  IF ~p.ok THEN p
        ELSE LET s2 == tag(" ", p.rest)
        IN  IF ~s2.ok THEN s2
        ELSE LET r == rest(s2.rest)
        IN  IF ~r.ok THEN r
        ELSE NomOk(r.rest, [method |-> m.val, path |-> p.val])

(***************************************************************************)
(* Header                                                                  *)
(***************************************************************************)
Header == {"UserAgent", "ContentType", "ContentLength"}

HeaderTags ==
    << <<"User-Agent", "UserAgent">>, <<"Content-Type", "ContentType">>,
       <<"Content-Length", "ContentLength">> >>

Header_parse(input) == alt(HeaderTags, 1, input)

\* impl Display for Header
Header_fmt(h) ==
    CASE h = "UserAgent" -> "User-Agent"
      [] h = "ContentType" -> "Content-Type"
      [] h = "ContentLength" -> "Content-Length"

\* parse_header_value with the separator ":" in place of ": ".
parse_header_value_colon(line) ==
    LET h == Header_parse(line)
    IN  IF ~h.ok THEN h
        ELSE LET sep == tag(":", h.rest)
        IN  IF ~sep.ok THEN sep
        ELSE LET v == rest(sep.rest)
        IN  NomOk(v.rest, <<h.val, v.val>>)

\* separated_pair(Header::parse, tag(": "), rest)
parse_header_value(line) ==
    LET h == Header_parse(line)
    IN  IF ~h.ok THEN h
        ELSE LET sep == tag(": ", h.rest)
        IN  IF ~sep.ok THEN sep
        ELSE LET v == rest(sep.rest)
        IN  NomOk(v.rest, <<h.val, v.val>>)

\* HashMap<Header, String>: a function from the headers present to values.
EmptyMap == [h \in {} |-> ""]

\* HashMap::insert: a later value replaces an earlier one for the same key.
Insert(map, k, v) == [h \in DOMAIN map \cup {k} |-> IF h = k THEN v ELSE map[h]]

\* HeaderStep starting the map afresh at a line it cannot parse.
HeaderStep_resets(map, line) ==
    LET h == parse_header_value(line)
    IN  IF h.ok THEN Insert(map, h.val[1], h.val[2]) ELSE EmptyMap

\* The body of the header loop for a non-empty line: let-else `continue`s
\* past a line parse_header_value rejects, and inserts the pair otherwise.
HeaderStep(map, line) ==
    LET h == parse_header_value(line)
    IN  IF h.ok THEN Insert(map, h.val[1], h.val[2]) ELSE map

(***************************************************************************)
(* Status and Response                                                     *)
(***************************************************************************)
Status == {"Ok", "NotFound"}

\* impl Display for Status
Status_fmt(s) ==
    CASE s = "Ok" -> "200 OK"
      [] s = "NotFound" -> "404 Not Found"

Digit(d) == CharAt("0123456789", d + 1)

\* usize::to_string: the decimal digits, most significant first.
RECURSIVE to_string(_)
to_string(n) ==
    IF n < 10 THEN Digit(n) ELSE to_string(n \div 10) \o Digit(n % 10)

Response(status, hdrs, body) ==
    [status |-> status, headers |-> hdrs, body |-> body]

\* The orders in which iterating a HashMap with these keys may yield them
\* (std's HashMap is seeded per map: the order is unspecified).
IterOrders(keys) ==
    {o \in [1..Cardinality(keys) -> keys] :
        \A i, j \in DOMAIN o : i # j => o[i] # o[j]}

RECURSIVE HeaderLines(_, _, _)
HeaderLines(hdrs, order, k) ==
    IF k > Len(order) THEN ""
    ELSE Header_fmt(order[k]) \o ": " \o hdrs[order[k]] \o CRLF
         \o HeaderLines(hdrs, order, k + 1)

\* impl Display for Response, with the header map iterated in `order`.
Response_fmt(resp, order) ==
    "HTTP/1.1 " \o Status_fmt(resp.status) \o CRLF
    \o HeaderLines(resp.headers, order, 1)
    \o CRLF \o resp.body


NoResponse == Response("", EmptyMap, "")

RouteOk(resp) == [ok |-> TRUE, err |-> "", response |-> resp]
RouteErr(ctx) == [ok |-> FALSE, err |-> ctx, response |-> NoResponse]

\* HashMap::from_iter([(ContentType, "text/plain"), (ContentLength, len)])
BodyHeaders(len) ==
    Insert(Insert(EmptyMap, "ContentType", "text/plain"),
           "ContentLength", to_string(len))

\* RootRoute handing back the request's header map in place of a new one.
RootRoute_keeps_headers(hdrs) == Response("Ok", hdrs, "")

\* The branch of path "/": Ok with a new, empty header map and an empty body.
RootRoute(hdrs) == Response("Ok", EmptyMap, "")

\* UserAgentRoute answering NotFound where the header is missing.
UserAgentRoute_default(hdrs) ==
    IF "UserAgent" \notin DOMAIN hdrs
    THEN RouteOk(Response("NotFound", EmptyMap, ""))
    ELSE RouteOk(Response("Ok", BodyHeaders(Len(hdrs["UserAgent"])),
                          hdrs["UserAgent"]))

\* The branch of path "/user-agent": `?` on the missing header is an error.
UserAgentRoute(hdrs) ==
    IF "UserAgent" \notin DOMAIN hdrs
    THEN RouteErr("user-agent header not found")
    ELSE LET user_agent == hdrs["UserAgent"]
         IN  RouteOk(Response("Ok", BodyHeaders(Len(user_agent)), user_agent))

\* EchoRoute stripping "/echo" only.
EchoRoute_keeps_slash(path) ==
    LET echo == From(path, Len("/echo/"))
    IN  Response("Ok", BodyHeaders(Len(echo)), echo)

\* EchoRoute taking the length of the whole path.
EchoRoute_len_of_path(path) ==
    LET echo == From(path, Len("/echo/") + 1)
    IN  Response("Ok", BodyHeaders(Len(path)), echo)

\* The branch of a path with the prefix "/echo/": strip_prefix's remainder
\* is the body.
EchoRoute(path) ==
    LET echo == From(path, Len("/echo/") + 1)
    IN  Response("Ok", BodyHeaders(Len(echo)), echo)

\* IsEcho with the prefix "/echo".
IsEcho_no_slash(path) == StartsWith(path, "/echo")

\* path.strip_prefix("/echo/") is Some
IsEcho(path) == StartsWith(path, "/echo/")

\* The if / else-if chain of handle_socket that builds the Response from the
\* parsed path and the header map.
Route(path, hdrs) ==
    IF path = "/" THEN RouteOk(RootRoute(hdrs))
    ELSE IF path = "/user-agent" THEN UserAgentRoute(hdrs)
    ELSE IF IsEcho(path) THEN RouteOk(EchoRoute(path))
    ELSE RouteOk(Response("NotFound", EmptyMap, ""))

(***************************************************************************)
(* The byte stream of a connection.  A client is described by the bytes it *)
(* sends (wire) and by what follows them (ending): "eof" (it shuts its     *)
(* sending side), "reset" (the next read fails) or "stall" (it sends       *)
(* nothing more and keeps the connection open).                            *)
(***************************************************************************)
Endings == {"eof", "reset", "stall"}

\* next_line that reports the end of the stream where no whole line has
\* arrived yet, instead of waiting for more bytes.
next_line_nonblocking(buf, ending) ==
    LET nl == Occurrences(buf, "\n")
    IN  IF nl # {} THEN
            LET i == CHOOSE x \in nl : \A y \in nl : x <= y
                raw == SubSeq(buf, 1, i)
                line == IF raw # "" /\ CharAt(raw, Len(raw)) = "\r"
                        THEN SubSeq(raw, 1, Len(raw) - 1) ELSE raw
            IN  [kind |-> "Some", line |-> line, rest |-> From(buf, i + 2)]
        ELSE IF ending = "reset" THEN [kind |-> "Err", line |-> "", rest |-> buf]
        ELSE IF buf = "" THEN [kind |-> "None", line |-> "", rest |-> ""]
        ELSE [kind |-> "Some", line |-> buf, rest |-> ""]

\* next_line that removes the "\n" of a line and leaves the "\r" before it.
next_line_keeps_cr(buf, ending) ==
    LET nl == Occurrences(buf, "\n")
    IN  IF nl # {} THEN
            LET i == CHOOSE x \in nl : \A y \in nl : x <= y
            IN  [kind |-> "Some", line |-> SubSeq(buf, 1, i),
                 rest |-> From(buf, i + 2)]
        ELSE IF ending = "eof" THEN
            IF buf = "" THEN [kind |-> "None", line |-> "", rest |-> ""]
            ELSE [kind |-> "Some", line |-> buf, rest |-> ""]
        ELSE IF ending = "reset" THEN [kind |-> "Err", line |-> "", rest |-> buf]
        ELSE [kind |-> "Pending", line |-> "", rest |-> buf]

\* tokio's Lines::next_line on the unread bytes buf: a line ends at "\n",
\* which is removed together with one "\r" before it; at end of stream the
\* unterminated remainder is a line as it stands, and nothing left is None.
next_line(buf, ending) ==
    LET nl == Occurrences(buf, "\n")
    IN  IF nl # {} THEN
            LET i == CHOOSE x \in nl : \A y \in nl : x <= y
                raw == SubSeq(buf, 1, i)
                line == IF raw # "" /\ CharAt(raw, Len(raw)) = "\r"
                        THEN SubSeq(raw, 1, Len(raw) - 1) ELSE raw
            IN  [kind |-> "Some", line |-> line, rest |-> From(buf, i + 2)]
        ELSE IF ending = "eof" THEN
            IF buf = "" THEN [kind |-> "None", line |-> "", rest |-> ""]
            ELSE [kind |-> "Some", line |-> buf, rest |-> ""]
        ELSE IF ending = "reset" THEN [kind |-> "Err", line |-> "", rest |-> buf]
        ELSE [kind |-> "Pending", line |-> "", rest |-> buf]

(***************************************************************************)
(* The requests clients send.  A request keeps, beside its bytes, what it  *)
(* was built from: kind tells whether its first line has the form          *)
(* METHOD SP PATH SP rest ("wellformed"), has not ("malformed"), or        *)
(* whether no byte is sent at all ("empty").                               *)
(***************************************************************************)
RECURSIVE JoinLines(_, _)
JoinLines(lines, k) ==
    IF k > Len(lines) THEN "" ELSE lines[k] \o CRLF \o JoinLines(lines, k + 1)

FirstLine(kind, method, path, line) ==
    [kind |-> kind, method |-> method, path |-> path, line |-> line]

Req(first, hdrs, blank, ending) ==
    [kind |-> first.kind, method |-> first.method, path |-> first.path,
     first |-> first.line, hdrs |-> hdrs, blank |-> blank, ending |-> ending,
     wire |-> first.line \o CRLF \o JoinLines(hdrs, 1)
              \o (IF blank THEN CRLF ELSE "")]

\* A request given by its bytes alone.
RawReq(kind, method, path, first, wire, ending) ==
    [kind |-> kind, method |-> method, path |-> path, first |-> first,
     hdrs |-> <<>>, blank |-> FALSE, ending |-> ending, wire |-> wire]

NoReq == RawReq("none", "", "", "", "", "stall")

Paths ==
    {"/", "/user-agent", "/user-agent/", "/echo", "/echo/", "/echo/abc",
     "/echo/a/b%20c", "/echo/0123456789", "/nope"}

\* Request lines METHOD SP PATH SP rest, over every method and path, and over
\* other rests of the line for one of them.
WellFormedLines ==
    {FirstLine("wellformed", m, p, m \o " " \o p \o " HTTP/1.1") :
        m \in Method, p \in Paths}
    \cup {FirstLine("wellformed", "GET", "/echo/abc", "GET /echo/abc " \o v) :
        v \in {"", "HTTP/1.0", "x y z"}}

MalformedLines ==
    {FirstLine("malformed", "", "", l) :
        l \in {"", "GE", "PO", "GET", "get / HTTP/1.1", "BREW / HTTP/1.1",
               "/ HTTP/1.1", " GET / HTTP/1.1", "GETX / HTTP/1.1",
               "GET/ HTTP/1.1", "GET  HTTP/1.1", "GET /", "GET /echo/abc"}}

FirstLines == WellFormedLines \cup MalformedLines

HeaderLineChoices ==
    {"User-Agent: curl/7.64.1", "User-Agent: ", "X-Custom: whatever",
     "Content-Length: 5", "Content-Type: application/json", "User-Agent:x"}

\* Longer blocks: lines that are skipped between lines that are recorded.
LongBlocks ==
    {<<"User-Agent: curl/7.64.1", "X-Custom: whatever", "Content-Length: 5">>,
     <<"Content-Type: application/json", "User-Agent:x", "nocolon",
       "User-Agent: ">>}

HeaderBlocks ==
    UNION {[1..n -> HeaderLineChoices] : n \in 0..MaxHeaders} \cup LongBlocks

\* How a generated request ends: with the blank line, after which the client
\* waits for the answer or shuts its sending side, or without it and then
\* end of stream, a failing read, or silence.
Terminations ==
    {<<TRUE, "stall">>, <<TRUE, "eof">>} \cup {<<FALSE, e>> : e \in Endings}

\* Requests that are not lines ended by CRLF: no byte at all, and a request
\* line cut short by the end of the stream.
OtherRequests ==
    {RawReq("empty", "", "", "", "", e) : e \in Endings}
    \cup {RawReq("wellformed", "GET", "/", "GET / HTTP/1.1",
                 "GET / HTTP/1.1", "eof")}

\* The requests of the concurrent specification: one per outcome of
\* handle_socket.
ServerRequests ==
    {Req(FirstLine("wellformed", "GET", "/echo/abc", "GET /echo/abc HTTP/1.1"),
         <<>>, TRUE, "stall"),
     Req(FirstLine("wellformed", "GET", "/nope", "GET /nope HTTP/1.1"),
         <<"User-Agent: x">>, TRUE, "stall"),
     Req(FirstLine("wellformed", "POST", "/user-agent", "POST /user-agent HTTP/1.1"),
         <<"X-Custom: whatever", "User-Agent: curl/7.64.1">>, TRUE, "stall"),
     Req(FirstLine("wellformed", "GET", "/user-agent", "GET /user-agent HTTP/1.1"),
         <<>>, TRUE, "eof"),
     Req(FirstLine("malformed", "", "", "BREW / HTTP/1.1"),
         <<"User-Agent: x">>, TRUE, "eof"),
     Req(FirstLine("wellformed", "GET", "/", "GET / HTTP/1.1"),
         <<"User-Agent: x">>, FALSE, "stall"),
     Req(FirstLine("wellformed", "PUT", "/", "PUT / HTTP/1.1"),
         <<>>, FALSE, "eof"),
     Req(FirstLine("wellformed", "GET", "/", "GET / HTTP/1.1"),
         <<>>, FALSE, "reset"),
     RawReq("empty", "", "", "", "", "eof"),
     RawReq("empty", "", "", "", "", "stall")}

(***************************************************************************)
(* State                                                                   *)
(***************************************************************************)
VARIABLES
    server,        \* main: "running" in the accept loop, "terminated" once it returned
    acceptErrs,    \* accept attempts that failed
    accepted,      \* connections accepted so far
    stdout,        \* lines printed by main
    pc,            \* per connection: where its handle_socket task is
    req,           \* per connection: the request its client sends
    inbuf,         \* per connection: the bytes not yet read
    request_line,  \* per connection: the first line read
    headers,       \* per connection: the header map built so far
    request,       \* per connection: the parsed RequestLine
    response,      \* per connection: the Response built
    out,           \* per connection: the bytes written to the stream
    result         \* per connection: "" while running, "ok", or the error's context

vars ==
    <<server, acceptErrs, accepted, stdout, pc, req, inbuf, request_line,
      headers, request, response, out, result>>

Conns == 1..MaxConns

NoRequestLine == [method |-> "", path |-> ""]

Init ==
    /\ server = "running"
    /\ acceptErrs = 0
    /\ accepted = 0
    /\ stdout = <<>>
    /\ pc = [c \in Conns |-> "none"]
    /\ req = [c \in Conns |-> NoReq]
    /\ inbuf = [c \in Conns |-> ""]
    /\ request_line = [c \in Conns |-> ""]
    /\ headers = [c \in Conns |-> EmptyMap]
    /\ request = [c \in Conns |-> NoRequestLine]
    /\ response = [c \in Conns |-> NoResponse]
    /\ out = [c \in Conns |-> ""]
    /\ result = [c \in Conns |-> ""]

(***************************************************************************)
(* main                                                                    *)
(***************************************************************************)
\* Slot with one header map for all the tasks.
Slot_shared(c) == 1

\* The header map of task c: `headers` is a local of handle_socket, so each
\* task has its own.
Slot(c) == c

\* LoopFree with the task awaited in the loop.
LoopFree_awaits(pcs) == \A c \in DOMAIN pcs : pcs[c] \in {"none", "done"}

\* Whether main is back at listener.accept(): tokio::spawn returns at once,
\* whatever the tasks spawned before are doing.
LoopFree(pcs) == TRUE

\* TaskFinished as it would be were the task awaited with `?` in the loop.
TaskFinished_propagates(srv, res) == IF res = "ok" THEN srv ELSE "terminated"

\* What the end of a spawned task does to main: tokio::spawn's JoinHandle is
\* dropped, so the task's Result reaches nobody.
TaskFinished(srv, res) == srv

\* What a failed accept does to main: `?` returns the error from main, which
\* ends the process and every task with it.
AcceptFailed(srv) == "terminated"

\* listener.accept() yields a connection: print a line and spawn its task.
Accept(r) ==
    /\ server = "running"
    /\ LoopFree(pc)
    /\ accepted < MaxConns
    /\ LET c == accepted + 1
       IN  /\ accepted' = c
           /\ stdout' = Append(stdout, "accepted new connection")
           /\ pc' = [pc EXCEPT ![c] = "request_line"]
           /\ req' = [req EXCEPT ![c] = r]
           /\ inbuf' = [inbuf EXCEPT ![c] = r.wire]
    /\ UNCHANGED <<server, acceptErrs, request_line, headers, request,
                   response, out, result>>

\* listener.accept() fails.
AcceptError ==
    /\ server = "running"
    /\ server' = AcceptFailed(server)
    /\ acceptErrs' = acceptErrs + 1
    /\ UNCHANGED <<accepted, stdout, pc, req, inbuf, request_line, headers,
                   request, response, out, result>>

(***************************************************************************)
(* handle_socket                                                           *)
(***************************************************************************)
\* The task of connection c returns res (Ok or an error's context).
Return(c, res) ==
    /\ pc' = [pc EXCEPT ![c] = "done"]
    /\ result' = [result EXCEPT ![c] = res]
    /\ server' = TaskFinished(server, res)

\* lines.next_line() for the request line.
ReadRequestLine(c) ==
    /\ server = "running"
    /\ pc[c] = "request_line"
    /\ \E r \in {next_line(inbuf[c], req[c].ending)} :
           /\ r.kind # "Pending"
           /\ \/ /\ r.kind = "Err"
                 /\ Return(c, "read request line")
                 /\ UNCHANGED <<inbuf, request_line>>
              \/ /\ r.kind = "None"
                 /\ Return(c, "no request line")
                 /\ UNCHANGED <<inbuf, request_line>>
              \/ /\ r.kind = "Some"
                 /\ request_line' = [request_line EXCEPT ![c] = r.line]
                 /\ inbuf' = [inbuf EXCEPT ![c] = r.rest]
                 /\ pc' = [pc EXCEPT ![c] = "headers"]
                 /\ UNCHANGED <<server, result>>
    /\ UNCHANGED <<acceptErrs, accepted, stdout, req, headers, request,
                   response, out>>

\* One turn of the while-let loop over the header lines.
ReadHeader(c) ==
    /\ server = "running"
    /\ pc[c] = "headers"
    /\ \E r \in {next_line(inbuf[c], req[c].ending)} :
           /\ r.kind # "Pending"
           /\ \/ /\ r.kind = "Err"
                 /\ Return(c, "read header")
                 /\ UNCHANGED <<inbuf, headers>>
              \/ /\ r.kind = "None" \/ (r.kind = "Some" /\ r.line = "")
                 /\ inbuf' = [inbuf EXCEPT ![c] = r.rest]
                 /\ pc' = [pc EXCEPT ![c] = "route"]
                 /\ UNCHANGED <<server, result, headers>>
              \/ /\ r.kind = "Some" /\ r.line # ""
                 /\ inbuf' = [inbuf EXCEPT ![c] = r.rest]
                 /\ headers' = [headers EXCEPT
                                    ![Slot(c)] = HeaderStep(@, r.line)]
                 /\ UNCHANGED <<server, result, pc>>
    /\ UNCHANGED <<acceptErrs, accepted, stdout, req, request_line, request,
                   response, out>>

\* RequestLine::parse on the first line, then the routing chain.
RouteRequest(c) ==
    /\ server = "running"
    /\ pc[c] = "route"
    /\ \E p \in {RequestLine_parse(request_line[c])} :
           IF ~p.ok THEN
               /\ Return(c, "parse request")
               /\ UNCHANGED <<request, response>>
           ELSE
               \E r \in {Route(p.val.path, headers[Slot(c)])} :
                   /\ request' = [request EXCEPT ![c] = p.val]
                   /\ IF r.ok THEN
                          /\ response' = [response EXCEPT ![c] = r.response]
                          /\ pc' = [pc EXCEPT ![c] = "write"]
                          /\ UNCHANGED <<server, result>>
                      ELSE
                          /\ Return(c, r.err)
                          /\ UNCHANGED response
    /\ UNCHANGED <<acceptErrs, accepted, stdout, req, inbuf, request_line,
                   headers, out>>

\* writer.write_all(response.to_string().as_bytes()): the response is a few
\* dozen bytes, which the socket takes whole or, the peer gone, not at all.
WriteResponse(c) ==
    /\ server = "running"
    /\ pc[c] = "write"
    /\ \/ \E order \in IterOrders(DOMAIN response[c].headers) :
              /\ out' = [out EXCEPT ![c] = Response_fmt(response[c], order)]
              /\ Return(c, "ok")
       \/ /\ Return(c, "write response")
          /\ UNCHANGED out
    /\ UNCHANGED <<acceptErrs, accepted, stdout, req, inbuf, request_line,
                   headers, request, response>>

Handle(c) ==
    \/ ReadRequestLine(c)
    \/ ReadHeader(c)
    \/ RouteRequest(c)
    \/ WriteResponse(c)

(***************************************************************************)
(* The server: connections are accepted while earlier ones are handled.    *)
(***************************************************************************)
Next ==
    \/ \E r \in ServerRequests : Accept(r)
    \/ AcceptError
    \/ \E c \in Conns : Handle(c)

Spec == Init /\ [][Next]_vars

(***************************************************************************)
(* One connection, over all the generated requests.                        *)
(***************************************************************************)
AcceptOne ==
    /\ accepted = 0
    /\ \/ \E f \in FirstLines, hs \in HeaderBlocks, t \in Terminations :
              Accept(Req(f, hs, t[1], t[2]))
       \/ \E r \in OtherRequests : Accept(r)

NextHandler == AcceptOne \/ Handle(1)

SpecHandler == Init /\ [][NextHandler]_vars

(***************************************************************************)
(* One connection under the scheduling of the runtime: a task that can     *)
(* take a step is eventually polled.  The requests are one first line for  *)
(* each route and each method, and two malformed ones, with a few header   *)
(* blocks, ended in every way.                                             *)
(***************************************************************************)
FairLines ==
    {FirstLine("wellformed", "GET", "/", "GET / HTTP/1.1"),
     FirstLine("wellformed", "POST", "/user-agent", "POST /user-agent HTTP/1.1"),
     FirstLine("wellformed", "PUT", "/echo/abc", "PUT /echo/abc HTTP/1.1"),
     FirstLine("wellformed", "DELETE", "/nope", "DELETE /nope "),
     FirstLine("malformed", "", "", "BREW / HTTP/1.1"),
     FirstLine("malformed", "", "", "GET /")}

FairBlocks ==
    {<<>>, <<"User-Agent: curl/7.64.1">>, <<"X-Custom: whatever", "User-Agent: ">>}

AcceptFair ==
    /\ accepted = 0
    /\ \/ \E f \in FairLines, hs \in FairBlocks, t \in Terminations :
              Accept(Req(f, hs, t[1], t[2]))
       \/ \E r \in OtherRequests : Accept(r)

NextFair == AcceptFair \/ Handle(1)

SpecFair == Init /\ [][NextFair]_vars /\ WF_vars(Handle(1))

(***************************************************************************)
(* Properties                                                              *)
(***************************************************************************)
\* The contexts of the errors that end handle_socket before routing.
ReadErrors == {"read request line", "no request line", "read header"}

\* Every context with which handle_socket returns an error.
Errors ==
    ReadErrors \cup {"parse request", "user-agent header not found",
                     "write response"}

\* The request line and the header block of c were read to their end,
\* and the routing step has run.
PastRoute(c) ==
    pc[c] = "write" \/ (pc[c] = "done" /\ result[c] \notin ReadErrors)

\* C1: a failure while handling a connection (a read or write error, no
\* request line, a malformed request line, no User-Agent header on
\* /user-agent) never ends the accept loop: the step in which a task returns
\* an error leaves main running, main has ended only if an accept failed, and
\* while main runs the next connection can be accepted.
C1_FailureContained ==
    /\ [](acceptErrs = 0 => server = "running")
    /\ []((server = "running" /\ accepted < MaxConns)
            => ENABLED (\E r \in ServerRequests : Accept(r)))
    /\ [][\A c \in Conns :
            (result[c] = "" /\ result'[c] \in Errors) => server' = "running"]_vars

\* A first connection has failed and a second one was answered.
C1_Witness ==
    /\ result[1] \in Errors
    /\ result[2] = "ok"
    /\ out[2] # ""
    /\ server = "running"

\* C2: a failed accept is not fatal to the server: after an accept attempt
\* failed the accept loop is still running.
C2_AcceptErrorNonFatal == acceptErrs > 0 => server = "running"

\* C3: the request "GET /echo/abc HTTP/1.1\r\n\r\n" is answered with exactly
\* these bytes, the Content-Type line before the Content-Length line.
C3_EchoBytesExact ==
    \A c \in Conns :
        (req[c].wire = "GET /echo/abc HTTP/1.1\r\n\r\n" /\ result[c] = "ok")
            => out[c] = "HTTP/1.1 200 OK\r\nContent-Type: text/plain\r\n"
                        \o "Content-Length: 3\r\n\r\nabc"

NotFoundBytes == "HTTP/1.1 404 Not Found\r\n\r\n"

\* The request of c has a well-formed request line whose path is none of the
\* routed ones.
UnroutedPath(c) ==
    /\ req[c].kind = "wellformed"
    /\ req[c].path \notin {"/", "/user-agent"}
    /\ ~StartsWith(req[c].path, "/echo/")

\* C4: a request whose path is not "/", not "/user-agent" and does not start
\* with "/echo/" gets, whatever its method and headers, the response
\* NotFound with no headers and an empty body, and the bytes written are
\* exactly "HTTP/1.1 404 Not Found\r\n\r\n".
C4_NotFound ==
    \A c \in Conns :
        UnroutedPath(c) =>
            /\ PastRoute(c) =>
                  /\ result[c] \in {"", "ok", "write response"}
                  /\ response[c] = Response("NotFound", EmptyMap, "")
            /\ result[c] = "ok" => out[c] = NotFoundBytes

\* "/echo", sent with DELETE and a User-Agent header, was answered 404.
C4_Witness ==
    \E c \in Conns :
        /\ req[c].path = "/echo"
        /\ req[c].method = "DELETE"
        /\ "UserAgent" \in DOMAIN headers[c]
        /\ result[c] = "ok"
        /\ out[c] = NotFoundBytes

\* C5: for a path "/echo/" + S the response has status Ok, Content-Type
\* text/plain, the body S as it stands in the path (not URL-decoded) and
\* Content-Length the decimal length of S.
C5_Echo ==
    \A c \in Conns :
        (/\ req[c].kind = "wellformed"
         /\ StartsWith(req[c].path, "/echo/")
         /\ PastRoute(c)) =>
            LET S == SubSeq(req[c].path, 7, Len(req[c].path))
            IN  /\ result[c] \in {"", "ok", "write response"}
                /\ response[c].status = "Ok"
                /\ DOMAIN response[c].headers = {"ContentType", "ContentLength"}
                /\ response[c].headers["ContentType"] = "text/plain"
                /\ response[c].headers["ContentLength"] = ToString(Len(S))
                /\ response[c].body = S

\* An empty suffix, a suffix with a slash and an escape, and one of ten
\* bytes were each echoed (one per behaviour); the state named here is the
\* escaped one.
C5_Witness ==
    \E c \in Conns :
        /\ req[c].path = "/echo/a/b%20c"
        /\ result[c] = "ok"
        /\ response[c].body = "a/b%20c"
        /\ response[c].headers["ContentLength"] = "7"

\* The values of the User-Agent header lines of a request.
UserAgentValues(r) ==
    {SubSeq(r.hdrs[i], 13, Len(r.hdrs[i])) :
        i \in {j \in DOMAIN r.hdrs : StartsWith(r.hdrs[j], "User-Agent: ")}}

\* C6: a request with the header line "User-Agent: V" (its User-Agent lines
\* carry the one value V) and the path "/user-agent" gets a response with
\* status Ok, the body V and Content-Length the decimal length of V.
C6_UserAgent ==
    \A c \in Conns :
        \A V \in UserAgentValues(req[c]) :
            (/\ req[c].kind = "wellformed"
             /\ req[c].path = "/user-agent"
             /\ UserAgentValues(req[c]) = {V}
             /\ PastRoute(c)) =>
                /\ result[c] \in {"", "ok", "write response"}
                /\ response[c].status = "Ok"
                /\ response[c].body = V
                /\ "ContentLength" \in DOMAIN response[c].headers
                /\ response[c].headers["ContentLength"] = ToString(Len(V))

\* The eleven bytes of "curl/7.64.1", sent after an unknown header line,
\* came back as the body.
C6_Witness ==
    \E c \in Conns :
        /\ req[c].path = "/user-agent"
        /\ req[c].hdrs = <<"X-Custom: whatever", "User-Agent: curl/7.64.1">>
        /\ result[c] = "ok"
        /\ response[c].body = "curl/7.64.1"
        /\ response[c].headers["ContentLength"] = "11"

\* C7: when the path is "/user-agent" and the header block gave no
\* User-Agent entry, handling ends with the missing-header error and no
\* byte is written to the connection.
C7_MissingUserAgent ==
    \A c \in Conns :
        (/\ req[c].kind = "wellformed"
         /\ req[c].path = "/user-agent"
         /\ "UserAgent" \notin DOMAIN headers[c]
         /\ PastRoute(c)) =>
            /\ pc[c] = "done"
            /\ result[c] = "user-agent header not found"
            /\ response[c] = NoResponse
            /\ out[c] = ""

\* "/user-agent" was asked with other headers only, and the task has ended.
C7_Witness ==
    \E c \in Conns :
        /\ req[c].path = "/user-agent"
        /\ req[c].hdrs = <<"Content-Length: 5", "User-Agent:x">>
        /\ req[c].blank
        /\ pc[c] = "done"
        /\ result[c] = "user-agent header not found"
        /\ out[c] = ""

\* C8: when the first line of a connection is a malformed request line, no
\* byte is ever written to the connection, whatever header lines follow,
\* and once the header block has ended the task ends with the parse error.
C8_MalformedRequestLine ==
    \A c \in Conns :
        req[c].kind = "malformed" =>
            /\ out[c] = ""
            /\ response[c] = NoResponse
            /\ result[c] # "ok"
            /\ PastRoute(c) => (pc[c] = "done" /\ result[c] = "parse request")

\* A request line with an empty path, followed by two recognized headers,
\* was rejected.
C8_Witness ==
    \E c \in Conns :
        /\ req[c].first = "GET  HTTP/1.1"
        /\ DOMAIN headers[c] = {"UserAgent", "ContentLength"}
        /\ pc[c] = "done"
        /\ result[c] = "parse request"
        /\ out[c] = ""

\* C9: the path "/" gets status Ok, no headers and an empty body, whichever
\* the method and whatever the header block.
C9_Root ==
    \A c \in Conns :
        (/\ req[c].kind = "wellformed"
         /\ req[c].path = "/"
         /\ PastRoute(c)) =>
            /\ result[c] \in {"", "ok", "write response"}
            /\ response[c] = Response("Ok", EmptyMap, "")
            /\ result[c] = "ok" => out[c] = "HTTP/1.1 200 OK\r\n\r\n"

\* "/" was asked with PUT and with headers the server itself emits elsewhere.
C9_Witness ==
    \E c \in Conns :
        /\ req[c].path = "/"
        /\ req[c].method = "PUT"
        /\ DOMAIN headers[c] = {"ContentType", "ContentLength"}
        /\ result[c] = "ok"
        /\ out[c] = "HTTP/1.1 200 OK\r\n\r\n"

\* C10: every Response built is fully formed: with a Content-Length header
\* its value is the decimal length of the body, without one the body is
\* empty; the client's own Content-Length or Content-Type changes nothing.
C10_FullyFormed ==
    \A c \in Conns :
        response[c] # NoResponse =>
            IF "ContentLength" \in DOMAIN response[c].headers
            THEN response[c].headers["ContentLength"]
                     = ToString(Len(response[c].body))
            ELSE response[c].body = ""

\* The client sent "Content-Length: 5" and the response's is "10", its body's
\* length.
C10_Witness ==
    \E c \in Conns :
        /\ "ContentLength" \in DOMAIN headers[c]
        /\ headers[c]["ContentLength"] = "5"
        /\ "ContentLength" \in DOMAIN response[c].headers
        /\ response[c].headers["ContentLength"] = "10"
        /\ response[c].body = "0123456789"

\* The name of a header as the wire spells it.
WireName(h) ==
    CASE h = "UserAgent" -> "User-Agent"
      [] h = "ContentType" -> "Content-Type"
      [] h = "ContentLength" -> "Content-Length"

\* The lines of a header block that are "Name: value" for the header h.
LinesOf(hdrs, h) ==
    {i \in DOMAIN hdrs : StartsWith(hdrs[i], WireName(h) \o ": ")}

\* The header map a block stands for: for each recognized name the value of
\* its last line; any other line counts for nothing.
ExpectedHeaders(hdrs) ==
    [h \in {x \in Header : LinesOf(hdrs, x) # {}} |->
        LET i == CHOOSE x \in LinesOf(hdrs, h) : \A y \in LinesOf(hdrs, h) : y <= x
        IN  SubSeq(hdrs[i], Len(WireName(h)) + 3, Len(hdrs[i]))]

\* The header loop of c has ended without a read error.
HeadersRead(c) == pc[c] = "route" \/ PastRoute(c)

\* C11: a header line with an unrecognized name, or without the ": "
\* separator, never aborts the request: it adds no entry to the header map,
\* the recognized lines before and after it are recorded, and the request is
\* answered as it is without the line.
C11_SkippedLines ==
    \A c \in Conns :
        /\ HeadersRead(c) => headers[c] = ExpectedHeaders(req[c].hdrs)
        /\ (/\ req[c].kind = "wellformed"
            /\ PastRoute(c)
            /\ req[c].path = "/user-agent" => UserAgentValues(req[c]) # {}) =>
               /\ result[c] \in {"", "ok", "write response"}
               /\ response[c] # NoResponse

\* A line without separator and a line without colon stood between two
\* recognized lines, both of which were recorded, and the request was answered.
C11_Witness ==
    \E c \in Conns :
        /\ req[c].hdrs = <<"Content-Type: application/json", "User-Agent:x",
                           "nocolon", "User-Agent: ">>
        /\ req[c].path = "/user-agent"
        /\ DOMAIN headers[c] = {"ContentType", "UserAgent"}
        /\ headers[c]["ContentType"] = "application/json"
        /\ headers[c]["UserAgent"] = ""
        /\ result[c] = "ok"

\* The values a header map may hold when it is built from this request alone.
OwnHeaderLines(c) ==
    {req[c].hdrs[i] : i \in DOMAIN req[c].hdrs}

\* C12: connections share no state: whatever the interleaving, the first
\* line, the header map, the path and the response of a connection come from
\* its own request, and two connections with the same request at the same
\* point hold the same values.
C12_Isolation ==
    /\ \A c \in Conns :
        /\ request_line[c] \in {"", req[c].first}
        /\ \A h \in DOMAIN headers[c] :
               (WireName(h) \o ": " \o headers[c][h]) \in OwnHeaderLines(c)
        /\ HeadersRead(c) => headers[c] = ExpectedHeaders(req[c].hdrs)
        /\ request[c].path \in {"", req[c].path}
        /\ response[c] # NoResponse =>
               response[c].body \in
                   {""} \cup UserAgentValues(req[c])
                   \cup {SubSeq(req[c].path, 7, Len(req[c].path))}
        /\ pc[c] = "none" => (headers[c] = EmptyMap /\ response[c] = NoResponse)
    /\ \A c, d \in Conns :
        (req[c] = req[d] /\ pc[c] = pc[d] /\ result[c] = result[d]
         /\ inbuf[c] = inbuf[d]) =>
            /\ headers[c] = headers[d]
            /\ request[c] = request[d]
            /\ response[c] = response[d]

\* Two connections with different paths and header values were both
\* answered, the second with its own User-Agent.
C12_Witness ==
    /\ req[1].path = "/nope"
    /\ headers[1] = Insert(EmptyMap, "UserAgent", "x")
    /\ req[2].path = "/user-agent"
    /\ result[1] = "ok"
    /\ result[2] = "ok"
    /\ response[2].body = "curl/7.64.1"

\* Connection c waits for bytes its client has not sent.
Stalled(c) ==
    /\ pc[c] \in {"request_line", "headers"}
    /\ next_line(inbuf[c], req[c].ending).kind = "Pending"

\* C13: the accept loop never blocks on a connection's I/O: while a
\* connection is stalled (no request line yet, or no blank line yet) and
\* main runs, the next connection can be accepted.
C13_AcceptNeverBlocks ==
    \A c \in Conns :
        (Stalled(c) /\ server = "running" /\ accepted < MaxConns) =>
            ENABLED (\E r \in ServerRequests : Accept(r))

\* The first connection has sent nothing and is stalled; the second, accepted
\* after it, was answered.
C13_Witness ==
    /\ Stalled(1)
    /\ req[1].wire = ""
    /\ result[2] = "ok"
    /\ out[2] # ""

\* C14: every failure of a connection is logged: when a task has ended with
\* an error, main's output holds an entry for it.
C14_FailureLogged ==
    \A c \in Conns :
        result[c] \in Errors =>
            \E i \in DOMAIN stdout : stdout[i] # "accepted new connection"

\* Connection c was accepted and its client sends no blank line: no line of
\* its bytes has length zero.
NoBlankLine(c) ==
    /\ pc[c] # "none"
    /\ ~req[c].blank
    /\ (req[c].wire = "" \/ req[c].first # "")

\* The handler of c is in the reading part of handle_socket (the read of the
\* request line or the header loop) and has returned nothing.
StillReading(c) ==
    /\ pc[c] \in {"request_line", "headers"}
    /\ result[c] = ""
    /\ out[c] = ""

\* C15 as stated: whenever no blank line is received on a connection, its
\* handler never leaves the reading loop and never terminates.
C15_NoBlankLineBlocks ==
    \A c \in Conns : NoBlankLine(c) => StillReading(c)

\* C15, amended: a connection that stays open without sending a blank line
\* (no end of stream, no failing read) keeps its handler in the reading loop
\* for ever: it never routes, never writes and never returns.
C15_OpenNoBlankLineBlocks ==
    \A c \in Conns :
        (NoBlankLine(c) /\ req[c].ending = "stall") => StillReading(c)

\* A request line and a header line were read, no blank line follows and the
\* client is silent: the handler waits in the header loop.
C15_Witness ==
    /\ NoBlankLine(1)
    /\ req[1].ending = "stall"
    /\ pc[1] = "headers"
    /\ inbuf[1] = ""
    /\ DOMAIN headers[1] = {"UserAgent"}
    /\ next_line(inbuf[1], req[1].ending).kind = "Pending"

\* The order of the steps of handle_socket: each position and the ones that
\* may follow it.
StepOrder ==
    {<<"none", "request_line">>, <<"request_line", "headers">>,
     <<"headers", "route">>, <<"route", "write">>, <<"write", "done">>,
     <<"request_line", "done">>, <<"headers", "done">>, <<"route", "done">>}

\* A step of connection c that writes response bytes.
Writes(c) == out'[c] # out[c]

\* The steps of c are taken in order, bytes are written in the write step
\* alone, once, after every byte of the header block was read, and a task
\* that has returned does nothing more.
InOrder(c) ==
    /\ pc'[c] # pc[c] => <<pc[c], pc'[c]>> \in StepOrder
    /\ Writes(c) =>
          /\ pc[c] = "write" /\ pc'[c] = "done"
          /\ out[c] = ""
          /\ inbuf[c] = ""
          /\ result'[c] = "ok"
          /\ \E order \in IterOrders(DOMAIN response[c].headers) :
                 out'[c] = Response_fmt(response[c], order)
    /\ pc[c] = "done" =>
          /\ pc'[c] = "done"
          /\ out'[c] = out[c]
          /\ result'[c] = result[c]

\* The request of c has a first line METHOD SP PATH SP rest and ends with the
\* blank line.
BlankTerminated(c) == req[c].kind = "wellformed" /\ req[c].blank

\* The write of the response failed or the response was written whole and
\* the task returned.
WrittenAndClosed(c) ==
    /\ pc[c] = "done"
    /\ \/ result[c] = "write response"
       \/ /\ result[c] = "ok"
          /\ \E order \in IterOrders(DOMAIN response[c].headers) :
                 out[c] = Response_fmt(response[c], order)

\* C16 as stated: the steps of a connection occur in order, no response
\* byte is written before the header block has ended, at most one response
\* is written, and every well-formed request ended by a blank line is
\* eventually answered whole (unless the write fails), after which the task
\* has returned.
C16_OrderAndAnswer ==
    /\ [][\A c \in Conns : InOrder(c)]_vars
    /\ \A c \in Conns : BlankTerminated(c) ~> WrittenAndClosed(c)

\* Whether the routing chain builds a Response for the request of c: it
\* does not for the path "/user-agent" without a User-Agent header line.
Routable(c) ==
    req[c].path = "/user-agent" => UserAgentValues(req[c]) # {}

\* C16, amended: as stated, for the well-formed requests ended by a blank
\* line other than those for "/user-agent" without a User-Agent header.
C16_OrderAndAnswerRoutable ==
    /\ [][\A c \in Conns : InOrder(c)]_vars
    /\ \A c \in Conns :
          (BlankTerminated(c) /\ Routable(c)) ~> WrittenAndClosed(c)

\* A request ended by the blank line, after which the client waits, was
\* answered whole with the User-Agent value and the task has returned.
C16_Witness ==
    /\ BlankTerminated(1)
    /\ req[1].ending = "stall"
    /\ req[1].path = "/user-agent"
    /\ Len(req[1].hdrs) = 2
    /\ WrittenAndClosed(1)
    /\ result[1] = "ok"
    /\ response[1].body = ""
    /\ out[1] # ""
    /\ inbuf[1] = ""

\* The task of c has read its request line.
LineRead(c) ==
    /\ pc[c] \notin {"none", "request_line"}
    /\ result[c] \notin {"read request line", "no request line"}

\* C17: on a line that begins with a method's literal followed by a space,
\* Method::parse succeeds with that method's variant and leaves the line
\* without the literal, all of it from the space on; RequestLine::parse
\* records that variant.
C17_MethodParsed ==
    \A c \in Conns : \A M \in Method :
        (LineRead(c) /\ StartsWith(request_line[c], M \o " ")) =>
            LET r == Method_parse(request_line[c])
            IN  /\ r.ok
                /\ r.val = M
                /\ M \o r.rest = request_line[c]
                /\ CharAt(r.rest, 1) = " "
                /\ (PastRoute(c) /\ result[c] # "parse request") =>
                       request[c].method = M

\* Every method was parsed from a request line: here DELETE, from a request
\* that was then answered.
C17_Witness ==
    /\ request_line[1] = "DELETE /echo/a/b%20c HTTP/1.1"
    /\ request[1] = [method |-> "DELETE", path |-> "/echo/a/b%20c"]
    /\ result[1] = "ok"

\* The first token of a line: the line up to its first space, all of it
\* when it has none.
FirstToken(line) ==
    LET occ == Occurrences(line, " ")
    IN  IF occ = {} THEN line
        ELSE SubSeq(line, 1, CHOOSE x \in occ : \A y \in occ : x <= y)

\* C18 as stated: Method::parse fails on every line whose first token is
\* not GET, POST, PUT or DELETE.
C18_OtherTokenFails ==
    \A c \in Conns :
        (LineRead(c) /\ FirstToken(request_line[c]) \notin Method) =>
            ~Method_parse(request_line[c]).ok

\* The line begins with the literal of a method.
BeginsWithMethod(line) == \E M \in Method : StartsWith(line, M)

\* C18, amended: Method::parse fails exactly on the lines that do not begin
\* with one of the four literals (a token differing in case, a proper
\* prefix of a literal, any other token), and the request is then rejected;
\* on a token that extends a literal it succeeds, leaving the extension,
\* and it is RequestLine::parse that rejects the line.
C18_NoLiteralFails ==
    \A c \in Conns :
        LineRead(c) =>
            LET line == request_line[c]
                r == Method_parse(line)
            IN  /\ r.ok <=> BeginsWithMethod(line)
                /\ ~r.ok => /\ r.err \in {"Error", "Incomplete"}
                            /\ r.err = "Incomplete" <=>
                                  \E M \in Method :
                                      /\ Len(line) < Len(M)
                                      /\ StartsWith(M, line)
                            /\ ~RequestLine_parse(line).ok
                            /\ PastRoute(c) => result[c] = "parse request"
                /\ (r.ok /\ FirstToken(line) \notin Method) =>
                       /\ r.val \o r.rest = line
                       /\ ~RequestLine_parse(line).ok
                       /\ PastRoute(c) => result[c] = "parse request"

\* A proper prefix of a literal was read as the request line and the
\* request was rejected.
C18_Witness ==
    /\ request_line[1] = "GE"
    /\ Method_parse(request_line[1]) = NomErr("Incomplete")
    /\ Len(req[1].hdrs) = 1
    /\ result[1] = "parse request"

\* C19: on a line METHOD SP PATH SP rest, with PATH a non-empty run of
\* characters other than the space, RequestLine::parse succeeds with the
\* method and the path the line was built from and leaves no input,
\* whatever the rest is; the request is then routed with them.
C19_RequestLineParsed ==
    \A c \in Conns :
        (/\ LineRead(c)
         /\ req[c].kind = "wellformed"
         /\ request_line[c] = req[c].first) =>
            /\ LET r == RequestLine_parse(request_line[c])
               IN  /\ r.ok
                   /\ r.rest = ""
                   /\ r.val.method = req[c].method
                   /\ r.val.path = req[c].path
            /\ PastRoute(c) =>
                   /\ request[c] = [method |-> req[c].method,
                                    path |-> req[c].path]
                   /\ result[c] # "parse request"

\* A line whose rest is not a protocol version was parsed and the request
\* answered.
C19_Witness ==
    /\ request_line[1] = "GET /echo/abc x y z"
    /\ request[1] = [method |-> "GET", path |-> "/echo/abc"]
    /\ response[1].body = "abc"
    /\ result[1] = "ok"

\* The line begins with a method literal that no space follows.
NoSpaceAfterMethod(line) ==
    \E M \in Method : StartsWith(line, M) /\ ~StartsWith(line, M \o " ")

\* Two spaces follow the method: the path is empty.
EmptyPath(line) == \E M \in Method : StartsWith(line, M \o "  ")

\* No space follows the method and the space after it: there is no path
\* ended by a space.
NoSpaceAfterPath(line) ==
    \E M \in Method :
        /\ StartsWith(line, M \o " ")
        /\ Occurrences(From(line, Len(M) + 2), " ") = {}

\* The first lines C20 says are rejected.
Rejected(line) ==
    \/ ~BeginsWithMethod(line)
    \/ NoSpaceAfterMethod(line)
    \/ EmptyPath(line)
    \/ NoSpaceAfterPath(line)

\* C20: RequestLine::parse fails on every first line whose method does not
\* match, whose method no space follows, whose path is empty or whose path
\* no space follows, and on no other; the connection is then aborted: no
\* Response is built and no byte written.
C20_RequestLineRejected ==
    \A c \in Conns :
        LineRead(c) =>
            /\ Rejected(request_line[c]) <=>
                   ~RequestLine_parse(request_line[c]).ok
            /\ req[c].kind = "malformed" /\ request_line[c] = req[c].first =>
                   Rejected(request_line[c])
            /\ Rejected(request_line[c]) =>
                   /\ response[c] = NoResponse
                   /\ out[c] = ""
                   /\ pc[c] # "write"
                   /\ pc[c] = "done" =>
                          result[c] \in {"parse request", "read header"}

\* A line with a method and a path and no space after the path was
\* rejected after its header block was read.
C20_Witness ==
    /\ request_line[1] = "GET /echo/abc"
    /\ NoSpaceAfterPath(request_line[1])
    /\ RequestLine_parse(request_line[1]) = NomErr("Incomplete")
    /\ DOMAIN headers[1] = {"UserAgent"}
    /\ result[1] = "parse request"
    /\ out[1] = ""

=============================================================================
